---- MODULE Spec2Model ----
(***************************************************************************)
(* Model of metric-gen, the generator that turns marker-annotated Go API   *)
(* types into a customresourcestate configuration document.                *)
(*                                                                         *)
(* Representation of Go values:                                            *)
(*   - strings that the code compares with < (generator names, metric name *)
(*     prefixes, group, version, kind) are sequences of one-character      *)
(*     strings, ordered by CharCode;                                       *)
(*   - a struct tag value and a JSONPath are sequences of lexical chunks   *)
(*     (a chunk is a run of characters holding no separator);              *)
(*   - a pointer is Nil or Ptr(v); a map is a function; a slice is a       *)
(*     sequence;                                                           *)
(*   - a call that may end the process returns a record whose st field is  *)
(*     "ok", "fatal..." (klog.Fatal), "panic" (nil dereference) or         *)
(*     "stackoverflow" (the goroutine stack limit is exhausted).           *)
(***************************************************************************)
EXTENDS Integers, Sequences, FiniteSets, TLC

(***************************************************************************)
(* Go strings and their order.                                             *)
(***************************************************************************)
CharCode(c) ==
    CASE c = "-" -> 45
      [] c = "/" -> 47
      [] c = "1" -> 49
      [] c = "2" -> 50
      [] c = "a" -> 97
      [] c = "b" -> 98
      [] c = "c" -> 99
      [] c = "g" -> 103
      [] c = "h" -> 104
      [] c = "n" -> 110
      [] c = "v" -> 118
      [] c = "w" -> 119
      [] c = "x" -> 120
      [] c = "y" -> 121

Min(a, b) == IF a < b THEN a ELSE b

\* Go's < on strings: byte-wise lexicographic, a proper prefix is smaller.
StrLess(a, b) ==
    \/ \E k \in 1..Min(Len(a), Len(b)) :
          /\ \A i \in 1..(k - 1) : a[i] = b[i]
          /\ CharCode(a[k]) < CharCode(b[k])
    \/ /\ Len(a) < Len(b)
       /\ \A i \in 1..Len(a) : a[i] = b[i]

Nil == [isNil |-> TRUE]
Ptr(v) == [isNil |-> FALSE, v |-> v]

EmptyMap == [k \in {} |-> <<>>]

(***************************************************************************)
(* strings.Split(jsonTag, ","): the tag is a sequence of chunks, the chunk *)
(* "," being the separator; the parts are the concatenated chunks between  *)
(* separators (one empty part for the empty tag).                          *)
(***************************************************************************)
RECURSIVE SplitFrom(_, _, _, _)
SplitFrom(tag, i, cur, acc) ==
    IF i > Len(tag) THEN Append(acc, cur)
    ELSE IF tag[i] = "," THEN SplitFrom(tag, i + 1, "", Append(acc, cur))
    ELSE SplitFrom(tag, i + 1, cur \o tag[i], acc)

Split(tag) == SplitFrom(tag, 1, "", <<>>)

(***************************************************************************)
(* JSONPath.Parse.  The expression is a sequence of chunks: "." is a dot,  *)
(* "[0]" is an array index, "}{" closes the action and opens another one,  *)
(* "%" is a character that is no terminator and cannot start a token, any  *)
(* other chunk is a run of letters.  The expression is parsed as the       *)
(* single template "{" + j + "}" by jsonpath.Parse: parseInsideAction,     *)
(* parseRecursive, parseField, parseArray and parseIdentifier.             *)
(***************************************************************************)
\* isTerminator on the first character of a chunk
IsTerminatorChunk(t) == t \in {".", "[0]", "}{"}

\* isAlphaNumeric on the first character of a chunk
IsAlphaNumericChunk(t) == t \notin {".", "[0]", "}{", "%"}

\* The position at which a scan up to the next terminator stops.
RECURSIVE RunEnd(_, _)
RunEnd(j, i) ==
    IF i > Len(j) \/ IsTerminatorChunk(j[i]) THEN i ELSE RunEnd(j, i + 1)

\* The text of the chunks from i up to k.
RECURSIVE RunText(_, _, _)
RunText(j, i, k) == IF i >= k THEN "" ELSE j[i] \o RunText(j, i + 1, k)

ParseError == [err |-> TRUE, root |-> <<>>]

\* The list nodes under the template's root, each a sequence of nodes, or
\* the error of jsonpath.Parse.  The scan is at chunk i of the action whose
\* nodes so far are cur.
RECURSIVE ParseNodes(_, _, _, _)
ParseNodes(j, i, cur, root) ==
    IF i > Len(j) THEN [err |-> FALSE, root |-> Append(root, cur)]
    ELSE IF j[i] = "}{" THEN ParseNodes(j, i + 1, <<>>, Append(root, cur))
    ELSE IF j[i] = "." /\ i < Len(j) /\ j[i + 1] = "."
      THEN (IF Len(cur) > 0 /\ cur[Len(cur)].type = "Recursive"
              THEN ParseError
            ELSE IF i + 2 <= Len(j) /\ IsAlphaNumericChunk(j[i + 2])
              THEN ParseNodes(j, RunEnd(j, i + 2),
                              cur \o <<[type |-> "Recursive"],
                                       [type |-> "Field",
                                        value |-> RunText(j, i + 2, RunEnd(j, i + 2))]>>,
                              root)
            ELSE ParseNodes(j, i + 2, Append(cur, [type |-> "Recursive"]), root))
    ELSE IF j[i] = "."
      THEN ParseNodes(j, RunEnd(j, i + 1),
                      Append(cur, [type |-> "Field",
                                   value |-> RunText(j, i + 1, RunEnd(j, i + 1))]),
                      root)
    ELSE IF j[i] = "[0]"
      THEN ParseNodes(j, i + 1, Append(cur, [type |-> "Array"]), root)
    ELSE IF j[i] = "%" THEN ParseError
    ELSE ParseNodes(j, RunEnd(j, i), Append(cur, [type |-> "Identifier"]), root)

NoErr == "nil"

\* JSONPath.Parse on what jsonpath.Parse returned.
ParseRoot(parsed) ==
    IF parsed.err
      THEN [err |-> "parse JSONPath", val |-> <<>>]
    ELSE IF Len(parsed.root) > 1
      THEN [err |-> "expected a single JSONPath", val |-> <<>>]
    ELSE IF \E n \in 1..Len(parsed.root[1]) : parsed.root[1][n].type # "Field"
      THEN [err |-> "unable to typecast to jsonpath.NodeField", val |-> <<>>]
    ELSE [err |-> NoErr,
          val |-> [n \in 1..Len(parsed.root[1]) |-> parsed.root[1][n].value]]

Parse(j) == ParseRoot(ParseNodes(j, 1, <<>>, <<>>))

(***************************************************************************)
(* Marker names and marker values.                                         *)
(***************************************************************************)
GaugeMarkerName == "Metrics:gauge"
InfoMarkerName == "Metrics:info"
StateSetMarkerName == "Metrics:stateset"
NameMarkerName == "Metrics:namePrefix"
LabelFromPathMarkerName == "Metrics:labelFromPath"
GVKMarkerName == "Metrics:gvk"

GaugeMarker(name, jsonPath, labels) ==
    [kind |-> "Gauge", Name |-> name, Help |-> "", JSONPath |-> jsonPath,
     LabelFromKey |-> "", LabelsFromPath |-> labels, NilIsZero |-> FALSE,
     ValueFrom |-> Nil]

InfoMarker(name, jsonPath, labels) ==
    [kind |-> "Info", Name |-> name, Help |-> "", LabelsFromPath |-> labels,
     JSONPath |-> jsonPath, LabelFromKey |-> ""]

StateSetMarker(name, jsonPath, labels) ==
    [kind |-> "StateSet", Name |-> name, Help |-> "", LabelsFromPath |-> labels,
     JSONPath |-> jsonPath, LabelName |-> "", List |-> <<"on", "off">>]

NamePrefixMarker(n) == [kind |-> "NamePrefix", v |-> n]

LabelFromPathMarker(name, jsonPath) ==
    [kind |-> "LabelFromPath", Name |-> name, JSONPath |-> jsonPath]

GVKMarker == [kind |-> "GVK"]

\* val.(markers.LocalGeneratorMarker) and val.(markers.ResourceMarker)
IsGeneratorMarker(val) == val.kind \in {"Gauge", "Info", "StateSet"}
IsResourceMarker(val) == val.kind \in {"NamePrefix", "LabelFromPath"}

(***************************************************************************)
(* ToGenerator of the three generator markers.  The result is              *)
(* [st, gen]; st = "fatal" when a path expression does not parse.          *)
(***************************************************************************)
\* The loop "for k, v := range LabelsFromPath" of Gauge and Info: "." is the
\* empty path and is not parsed.
LabelPathDotAware(v) ==
    IF v # <<".">> THEN Parse(v) ELSE [err |-> NoErr, val |-> <<>>]

\* The same loop of StateSet: every expression is parsed.
LabelPathParsed(v) == Parse(v)

NoPath == [err |-> NoErr, val |-> <<>>]

LabelErrors(labels) == \E k \in DOMAIN labels : labels[k].err # NoErr
LabelValues(labels) == [k \in DOMAIN labels |-> labels[k].val]

\* The generator a Gauge marker returns, from its parsed path expressions.
GaugeGenerator(g, basePath, additionalPath, valueFrom, labels) ==
    IF additionalPath.err # NoErr \/ valueFrom.err # NoErr \/ LabelErrors(labels)
      THEN [st |-> "fatal"]
    ELSE [st |-> "ok",
          gen |-> [Name |-> g.Name, Help |-> g.Help,
                   Each |-> [Type |-> "Gauge",
                             NilIsZero |-> g.NilIsZero,
                             Path |-> basePath \o additionalPath.val,
                             LabelsFromPath |-> LabelValues(labels),
                             LabelFromKey |-> g.LabelFromKey,
                             ValueFrom |-> valueFrom.val]]]

GaugeToGenerator(g, basePath) ==
    GaugeGenerator(g, basePath,
        Parse(g.JSONPath),
        IF ~g.ValueFrom.isNil THEN Parse(g.ValueFrom.v) ELSE NoPath,
        [k \in DOMAIN g.LabelsFromPath |-> LabelPathDotAware(g.LabelsFromPath[k])])

\* The generator an Info marker returns, from its parsed path expressions.
InfoGenerator(i, basePath, valueFrom, labels) ==
    IF valueFrom.err # NoErr \/ LabelErrors(labels)
      THEN [st |-> "fatal"]
    ELSE [st |-> "ok",
          gen |-> [Name |-> i.Name, Help |-> i.Help,
                   Each |-> [Type |-> "Info",
                             Path |-> IF Len(valueFrom.val) > 0
                                        THEN basePath \o valueFrom.val
                                      ELSE basePath,
                             LabelsFromPath |-> LabelValues(labels),
                             LabelFromKey |-> i.LabelFromKey]]]

InfoToGenerator(i, basePath) ==
    InfoGenerator(i, basePath,
        IF i.JSONPath # <<>> THEN Parse(i.JSONPath) ELSE NoPath,
        [k \in DOMAIN i.LabelsFromPath |-> LabelPathDotAware(i.LabelsFromPath[k])])

\* Variant of StateSetGenerator that appends the path expression to the path.
StateSetGeneratorAppending(s, basePath, valueFrom, labels) ==
    IF valueFrom.err # NoErr \/ LabelErrors(labels)
      THEN [st |-> "fatal"]
    ELSE [st |-> "ok",
          gen |-> [Name |-> s.Name, Help |-> s.Help,
                   Each |-> [Type |-> "StateSet",
                             Path |-> basePath \o valueFrom.val,
                             LabelsFromPath |-> LabelValues(labels),
                             List |-> s.List,
                             LabelName |-> s.LabelName,
                             ValueFrom |-> <<>>]]]

\* The generator a StateSet marker returns, from its parsed path expressions.
StateSetGenerator(s, basePath, valueFrom, labels) ==
    IF valueFrom.err # NoErr \/ LabelErrors(labels)
      THEN [st |-> "fatal"]
    ELSE [st |-> "ok",
          gen |-> [Name |-> s.Name, Help |-> s.Help,
                   Each |-> [Type |-> "StateSet",
                             Path |-> basePath,
                             LabelsFromPath |-> LabelValues(labels),
                             List |-> s.List,
                             LabelName |-> s.LabelName,
                             ValueFrom |-> valueFrom.val]]]

StateSetToGenerator(s, basePath) ==
    StateSetGenerator(s, basePath,
        IF ~s.JSONPath.isNil THEN Parse(s.JSONPath.v) ELSE NoPath,
        [k \in DOMAIN s.LabelsFromPath |-> LabelPathParsed(s.LabelsFromPath[k])])

ToGenerator(val, basePath) ==
    CASE val.kind = "Gauge" -> GaugeToGenerator(val, basePath)
      [] val.kind = "Info" -> InfoToGenerator(val, basePath)
      [] val.kind = "StateSet" -> StateSetToGenerator(val, basePath)

(***************************************************************************)
(* Iteration order of a Go map.  MarkerValues is a map from marker name to *)
(* the values of that name; ranging over it visits the names in an order   *)
(* the runtime picks anew for every range statement.  An order is a        *)
(* sequence of all marker names; the values of one name keep their slice   *)
(* order.  Only the relative order of the generator marker names and of    *)
(* the resource marker names is visible.  A function that ranges over a    *)
(* map is the set of the results it can return.                            *)
(***************************************************************************)
Perms(S) == {s \in [1..Cardinality(S) -> S] : \A x \in S : \E i \in DOMAIN s : s[i] = x}

MarkerOrders ==
    {g \o r \o <<GVKMarkerName>> :
        g \in Perms({GaugeMarkerName, InfoMarkerName, StateSetMarkerName}),
        r \in Perms({NameMarkerName, LabelFromPathMarkerName})}

\* The marker values of m in the order a range over m under ord visits them.
RECURSIVE RangeMarkers(_, _, _)
RangeMarkers(m, ord, i) ==
    IF i > Len(ord) THEN <<>>
    ELSE (IF ord[i] \in DOMAIN m THEN m[ord[i]] ELSE <<>>)
         \o RangeMarkers(m, ord, i + 1)

OkResult(gens, trace) == [st |-> "ok", gens |-> gens, trace |-> trace]
Abort(st) == [st |-> st, gens |-> <<>>, trace |-> <<>>]

\* The generators appended by the loop, or the fatal end of the process.
AppendGenerators(made) ==
    IF \E n \in 1..Len(made) : made[n].st # "ok" THEN Abort("fatal")
    ELSE OkResult([n \in 1..Len(made) |-> made[n].gen], <<>>)

ToGenerators(vals, basePath) ==
    [n \in 1..Len(vals) |-> ToGenerator(vals[n], basePath)]

\* The results of generatorsFromMarkers, one for every order of the range.
generatorsFromMarkers(m, basePath) ==
    {AppendGenerators(
        ToGenerators(SelectSeq(RangeMarkers(m, ord, 1), IsGeneratorMarker), basePath)) :
        ord \in MarkerOrders}

\* Variant of prependPathOnGenerator whose switch has no Gauge case.
prependPathOnGeneratorNoGauge(generator, pathPrefix) ==
    IF generator.Each.Type \in {"StateSet", "Info"}
      THEN [generator EXCEPT !.Each.Path = <<pathPrefix>> \o @]
    ELSE generator

prependPathOnGenerator(generator, pathPrefix) ==
    IF generator.Each.Type \in {"Gauge", "StateSet", "Info"}
      THEN [generator EXCEPT !.Each.Path = <<pathPrefix>> \o @]
    ELSE generator

(***************************************************************************)
(* The parser: p.Types, the type checker's resolution of identifiers and   *)
(* p.FlattenedMetrics.  A TypeIdent is [Package, Name].                    *)
(***************************************************************************)
TypeIdent(pkg, name) == [Package |-> pkg, Name |-> name]

Ident(name) == [kind |-> "Ident", Name |-> name]
StarExpr(x) == [kind |-> "StarExpr", X |-> x]
SelectorExpr(x, sel) == [kind |-> "SelectorExpr", X |-> x, Sel |-> sel]
ArrayType(elt) == [kind |-> "ArrayType", Elt |-> elt]
MapType(key, value) == [kind |-> "MapType", Key |-> key, Value |-> value]
StructType == [kind |-> "StructType"]
InterfaceType == [kind |-> "InterfaceType"]

\* ctx.pkg.TypesInfo.TypeOf(ident): Invalid, Basic, or a named type.
Invalid == [kind |-> "Invalid"]
Basic == [kind |-> "Basic"]
Named(pkg, name) == [kind |-> "Named", Pkg |-> pkg, Name |-> name]

TypeOf(p, pkg, ident) ==
    IF <<pkg, ident.Name>> \in DOMAIN p.TypesInfo
      THEN p.TypesInfo[<<pkg, ident.Name>>]
    ELSE Invalid

\* Variant of FieldSkipped that only skips fields without a json tag.
FieldSkippedUntaggedOnly(f) == ~f.hasTag

\* f.Tag.Lookup("json") found nothing, or the tag is exactly "-".
FieldSkipped(f) ==
    \/ ~f.hasTag
    \/ LET jsonOpts == Split(f.jsonTag)
       IN Len(jsonOpts) = 1 /\ jsonOpts[1] = "-"

(***************************************************************************)
(* The walk.  Each function is the set of the results [st, gens, trace] it *)
(* can return.  stack is the set of types whose NeedMetricsGeneratorFor    *)
(* frames are on the call stack: a call for one of them repeats the calls  *)
(* that led to it without end, until the stack is exhausted.               *)
(***************************************************************************)
RECURSIVE NeedMetricsGeneratorFor(_, _, _)
RECURSIVE generatorsFor(_, _, _, _)
RECURSIVE FieldsFrom(_, _, _, _, _, _)

\* requestGenerator: the package is the context's own for the empty path.
requestGenerator(p, ctxPkg, pkgPath, typeName, stack) ==
    NeedMetricsGeneratorFor(
        p, TypeIdent(IF pkgPath # "" THEN pkgPath ELSE ctxPkg, typeName), stack)

\* The named type's package path, empty for the context's own package.
PkgPathOf(typeInfo, ctxPkg) == IF typeInfo.Pkg = ctxPkg THEN "" ELSE typeInfo.Pkg

NamedToGenerators(p, ctxPkg, typeInfo, stack) ==
    IF typeInfo = Invalid THEN {OkResult(<<>>, <<>>)}
    ELSE IF typeInfo = Basic THEN {OkResult(<<>>, <<>>)}
    ELSE requestGenerator(p, ctxPkg, PkgPathOf(typeInfo, ctxPkg), typeInfo.Name, stack)

localNamedToGenerators(p, ctxPkg, ident, stack) ==
    NamedToGenerators(p, ctxPkg, TypeOf(p, ctxPkg, ident), stack)

\* Variant of generatorsFor that descends into the elements of arrays and
\* the values of maps.
generatorsForElements(p, ctxPkg, rawType, stack) ==
    CASE rawType.kind = "Ident" -> localNamedToGenerators(p, ctxPkg, rawType, stack)
      [] rawType.kind = "SelectorExpr" -> generatorsFor(p, ctxPkg, rawType.X, stack)
      [] rawType.kind = "ArrayType" -> generatorsFor(p, ctxPkg, rawType.Elt, stack)
      [] rawType.kind = "MapType" -> generatorsFor(p, ctxPkg, rawType.Value, stack)
      [] rawType.kind = "StarExpr" -> generatorsFor(p, ctxPkg, rawType.X, stack)
      [] rawType.kind = "StructType" -> {Abort("fatal")}
      [] OTHER -> {Abort("fatal")}

generatorsFor(p, ctxPkg, rawType, stack) ==
    CASE rawType.kind = "Ident" -> localNamedToGenerators(p, ctxPkg, rawType, stack)
      [] rawType.kind = "SelectorExpr" -> generatorsFor(p, ctxPkg, rawType.X, stack)
      [] rawType.kind = "ArrayType" -> {OkResult(<<>>, <<>>)}
      [] rawType.kind = "MapType" -> {OkResult(<<>>, <<>>)}
      [] rawType.kind = "StarExpr" -> generatorsFor(p, ctxPkg, rawType.X, stack)
      [] rawType.kind = "StructType" -> {Abort("fatal")}
      [] OTHER -> {Abort("fatal")}

\* The field's external name, jsonOpts[0].
FieldName(f) == Split(f.jsonTag)[1]

\* generators = append(generators, more...), unless the process has ended.
AppendResult(acc, more) ==
    IF acc.st # "ok" THEN Abort(acc.st)
    ELSE IF more.st # "ok" THEN Abort(more.st)
    ELSE OkResult(acc.gens \o more.gens, acc.trace \o more.trace)

\* AppendResult for every result so far and every result of what follows.
AppendResults(accs, mores) ==
    {AppendResult(acc, more) : acc \in accs, more \in mores}

\* The loop over generatorsFor's result, prepending the field's name.
PrependAll(sub, pathPrefix) ==
    IF sub.st # "ok" THEN Abort(sub.st)
    ELSE OkResult([n \in 1..Len(sub.gens) |->
                      prependPathOnGenerator(sub.gens[n], pathPrefix)],
                  sub.trace)

\* The body of the loop over info.Fields for one field: the generators the
\* field adds and the calls of NeedMetricsGeneratorFor it completes.
FieldGenerators(p, typ, f, stack) ==
    IF FieldSkipped(f) THEN {OkResult(<<>>, <<>>)}
    ELSE AppendResults(
           generatorsFromMarkers(f.Markers, <<FieldName(f)>>),
           {PrependAll(sub, FieldName(f)) :
               sub \in generatorsFor(p, typ.Package, f.Type, stack)})

FieldsFrom(p, typ, fields, i, accs, stack) ==
    IF i > Len(fields) THEN accs
    ELSE FieldsFrom(p, typ, fields, i + 1,
                    AppendResults(accs, FieldGenerators(p, typ, fields[i], stack)),
                    stack)

\* return generators: the completed call joins the trace as [typ, n], n the
\* number of generators returned.
Return(typ, r) ==
    IF r.st # "ok" THEN Abort(r.st)
    ELSE OkResult(r.gens, Append(r.trace, [typ |-> typ, n |-> Len(r.gens)]))

NeedMetricsGeneratorFor(p, typ, stack) ==
    IF typ \in DOMAIN p.FlattenedMetrics
      THEN {OkResult(<<>>, <<[typ |-> typ, n |-> 0]>>)}
    ELSE IF typ \notin DOMAIN p.Types THEN {Abort("fatal")}
    ELSE IF typ \in stack THEN {Abort("stackoverflow")}
    ELSE {Return(typ, r) :
            r \in FieldsFrom(p, typ, p.Types[typ].Fields, 1,
                             generatorsFromMarkers(p.Types[typ].Markers, <<>>),
                             stack \cup {typ})}

(***************************************************************************)
(* ApplyToResource of the two resource markers: [err, resource].           *)
(***************************************************************************)
NamePrefixApplyToResource(n, resource) ==
    [err |-> NoErr, resource |-> [resource EXCEPT !.MetricNamePrefix = Ptr(n.v)]]

\* resource.LabelsFromPath made a map when it is nil
WithLabelMap(resource) ==
    IF resource.LabelsFromPath.isNil
      THEN [resource EXCEPT !.LabelsFromPath = Ptr(EmptyMap)]
    ELSE resource

\* Variant of SetLabel that compares the paths' lengths only.
SetLabelLengthOnly(n, resource, labels, jsonPathElems) ==
    IF jsonPathElems.err # NoErr
      THEN [err |-> jsonPathElems.err, resource |-> resource]
    ELSE IF /\ n.Name \in DOMAIN labels
            /\ Len(jsonPathElems.val) # Len(labels[n.Name])
      THEN [err |-> "duplicate definition for label", resource |-> resource]
    ELSE [err |-> NoErr,
          resource |->
            [resource EXCEPT !.LabelsFromPath =
               Ptr([k \in DOMAIN labels \cup {n.Name} |->
                      IF k = n.Name THEN jsonPathElems.val ELSE labels[k]])]]

\* The rest of ApplyToResource after n.JSONPath.Parse().
SetLabel(n, resource, labels, jsonPathElems) ==
    IF jsonPathElems.err # NoErr
      THEN [err |-> jsonPathElems.err, resource |-> resource]
    ELSE IF /\ n.Name \in DOMAIN labels
            /\ \/ Len(jsonPathElems.val) # Len(labels[n.Name])
               \/ \E i \in 1..Len(labels[n.Name]) :
                     labels[n.Name][i] # jsonPathElems.val[i]
      THEN [err |-> "duplicate definition for label", resource |-> resource]
    ELSE [err |-> NoErr,
          resource |->
            [resource EXCEPT !.LabelsFromPath =
               Ptr([k \in DOMAIN labels \cup {n.Name} |->
                      IF k = n.Name THEN jsonPathElems.val ELSE labels[k]])]]

LabelFromPathApplyToResource(n, resource) ==
    SetLabel(n, WithLabelMap(resource), WithLabelMap(resource).LabelsFromPath.v,
             Parse(n.JSONPath))

ApplyToResource(val, resource) ==
    CASE val.kind = "NamePrefix" -> NamePrefixApplyToResource(val, resource)
      [] val.kind = "LabelFromPath" -> LabelFromPathApplyToResource(val, resource)

(***************************************************************************)
(* sort.Slice.  A slice of at most 12 elements, as all slices here are, is *)
(* sorted by plain insertion sort, calling less(j, j-1).                   *)
(* The three comparators return "true", "false" or "panic".                *)
(***************************************************************************)
\* Variant of metricsLess with the comparison turned around.
metricsLessDescending(a, b) == IF StrLess(b.Name, a.Name) THEN "true" ELSE "false"

\* NeedResourceFor's comparator of resource.Metrics
metricsLess(a, b) == IF StrLess(a.Name, b.Name) THEN "true" ELSE "false"

\* Generate's comparator of resource.Metrics
generateMetricsLess(a, b) == IF StrLess(a.Name, b.Name) THEN "true" ELSE "false"

GVKString(r) ==
    r.GroupVersionKind.Group \o <<"/">> \o r.GroupVersionKind.Version
      \o <<"/">> \o r.GroupVersionKind.Kind

\* Variant of resourcesLess that compares only the kinds of two resources
\* without prefix.
resourcesLessKindOnly(ri, rj) ==
    IF ri.MetricNamePrefix.isNil /\ rj.MetricNamePrefix.isNil
      THEN (IF StrLess(ri.GroupVersionKind.Kind, rj.GroupVersionKind.Kind)
              THEN "true" ELSE "false")
    ELSE IF ri.MetricNamePrefix.isNil THEN "panic"
    ELSE IF StrLess(<<>>, IF ~rj.MetricNamePrefix.isNil
                            THEN rj.MetricNamePrefix.v ELSE <<>>)
      THEN "true" ELSE "false"

\* Generate's comparator of metrics.Spec.Resources: i is the first argument.
resourcesLess(ri, rj) ==
    IF ri.MetricNamePrefix.isNil /\ rj.MetricNamePrefix.isNil
      THEN (IF StrLess(GVKString(ri), GVKString(rj)) THEN "true" ELSE "false")
    ELSE IF ri.MetricNamePrefix.isNil THEN "panic"
    ELSE LET a == <<>>
             b == IF ~rj.MetricNamePrefix.isNil THEN rj.MetricNamePrefix.v ELSE <<>>
         IN IF StrLess(a, b) THEN "true" ELSE "false"

SliceLess(which, a, b) ==
    CASE which = "metrics" -> metricsLess(a, b)
      [] which = "generateMetrics" -> generateMetricsLess(a, b)
      [] which = "resources" -> resourcesLess(a, b)

Swap(s, i, j) == [s EXCEPT ![i] = s[j], ![j] = s[i]]

\* for j := i; j > a && less(j, j-1); j-- { swap(j, j-1) }
RECURSIVE InsertDown(_, _, _)
InsertDown(which, s, j) ==
    IF j <= 1 THEN [st |-> "ok", s |-> s]
    ELSE LET l == SliceLess(which, s[j], s[j - 1])
         IN IF l = "panic" THEN [st |-> "panic", s |-> s]
            ELSE IF l = "true" THEN InsertDown(which, Swap(s, j, j - 1), j - 1)
            ELSE [st |-> "ok", s |-> s]

RECURSIVE InsertionSortFrom(_, _, _)
InsertionSortFrom(which, s, i) ==
    IF i > Len(s) THEN [st |-> "ok", s |-> s]
    ELSE LET r == InsertDown(which, s, i)
         IN IF r.st # "ok" THEN r ELSE InsertionSortFrom(which, r.s, i + 1)

SortSlice(which, s) == InsertionSortFrom(which, s, 2)

(***************************************************************************)
(* NeedResourceFor for a group kind that has no resource yet.  pkgOrder is *)
(* the order in which the range over p.GroupVersions visits the packages;  *)
(* every range over a marker map has an order of its own.  An outcome is   *)
(* [st, resource, errors, trace, assembled]: errors are the errors added   *)
(* to packages, trace the completed calls of the Generator Assembler and   *)
(* assembled what it returned for the Kind type.                           *)
(***************************************************************************)
GroupKind(g, k) == [Group |-> g, Kind |-> k]

PackagesOfGroup(p, group, pkgOrder) ==
    SelectSeq(pkgOrder, LAMBDA pkg : p.GroupVersions[pkg].Group = group)

NewResource(groupKind) ==
    [GroupVersionKind |-> [Group |-> groupKind.Group, Version |-> <<>>,
                           Kind |-> groupKind.Kind],
     MetricNamePrefix |-> Nil,
     LabelsFromPath |-> Nil,
     Metrics |-> <<>>]

\* typeInfo.Markers.Get(markers.GVKMarkerName) is not nil
HasGVKMarker(typeInfo) ==
    /\ GVKMarkerName \in DOMAIN typeInfo.Markers
    /\ Len(typeInfo.Markers[GVKMarkerName]) > 0

\* klog.Fatal("GroupVersionKind.Version is already set", ...)
VersionAlreadySet == "fatal: GroupVersionKind.Version is already set"

\* Variant of SetMetrics without the check of the Version.
SetMetricsOverwrite(acc, version, g) ==
    IF acc.st # "ok" THEN acc
    ELSE IF g.st # "ok" THEN [acc EXCEPT !.st = g.st]
    ELSE [acc EXCEPT !.resource.Metrics = SortSlice("metrics", g.gens).s,
                     !.resource.GroupVersionKind.Version = version,
                     !.trace = @ \o g.trace,
                     !.assembled = g.gens]

\* One round of the first loop for a package whose Kind type is tracked:
\* g is what NeedMetricsGeneratorFor returned.
SetMetrics(acc, version, g) ==
    IF acc.st # "ok" THEN acc
    ELSE IF g.st # "ok" THEN [acc EXCEPT !.st = g.st]
    ELSE IF acc.resource.GroupVersionKind.Version # <<>>
      THEN [acc EXCEPT !.st = VersionAlreadySet]
    ELSE [acc EXCEPT !.resource.Metrics = SortSlice("metrics", g.gens).s,
                     !.resource.GroupVersionKind.Version = version,
                     !.trace = @ \o g.trace,
                     !.assembled = g.gens]

\* The first loop over packages, from package number i on: the outcomes it
\* can have after the outcomes accs of the packages before.
RECURSIVE BuildMetrics(_, _, _, _, _)
BuildMetrics(p, groupKind, packages, i, accs) ==
    IF i > Len(packages) THEN accs
    ELSE IF TypeIdent(packages[i], groupKind.Kind) \notin DOMAIN p.Types
      THEN BuildMetrics(p, groupKind, packages, i + 1, accs)
    ELSE IF ~HasGVKMarker(p.Types[TypeIdent(packages[i], groupKind.Kind)])
      THEN BuildMetrics(p, groupKind, packages, i + 1, accs)
    ELSE BuildMetrics(p, groupKind, packages, i + 1,
           {SetMetrics(acc, p.GroupVersions[packages[i]].Version, g) :
               acc \in accs,
               g \in NeedMetricsGeneratorFor(
                        p, TypeIdent(packages[i], groupKind.Kind), {})})

\* The resource after one marker's ApplyToResource returned r.
Applied(acc, pkg, r) ==
    [acc EXCEPT !.resource = r.resource,
                !.errors = IF r.err # NoErr
                             THEN Append(@, [pkg |-> pkg, err |-> r.err])
                           ELSE @]

\* The resource markers applied one after the other to the resource.
RECURSIVE ApplyMarkers(_, _, _, _)
ApplyMarkers(vals, n, pkg, acc) ==
    IF acc.st # "ok" \/ n > Len(vals) THEN acc
    ELSE ApplyMarkers(vals, n + 1, pkg,
                      Applied(acc, pkg, ApplyToResource(vals[n], acc.resource)))

\* The second loop over packages, from package number i on; the range over
\* typeInfo.Markers has its own order for every package.
RECURSIVE ApplyResourceMarkers(_, _, _, _, _)
ApplyResourceMarkers(p, groupKind, packages, i, accs) ==
    IF i > Len(packages) THEN accs
    ELSE IF TypeIdent(packages[i], groupKind.Kind) \notin DOMAIN p.Types
      THEN ApplyResourceMarkers(p, groupKind, packages, i + 1, accs)
    ELSE ApplyResourceMarkers(p, groupKind, packages, i + 1,
           {ApplyMarkers(
              SelectSeq(RangeMarkers(
                          p.Types[TypeIdent(packages[i], groupKind.Kind)].Markers,
                          ord, 1),
                        IsResourceMarker),
              1, packages[i], acc) : acc \in accs, ord \in MarkerOrders})

NewOutcome(groupKind) ==
    [st |-> "ok", resource |-> NewResource(groupKind),
     errors |-> <<>>, trace |-> <<>>, assembled |-> <<>>]

\* The outcomes of NeedResourceFor for a group kind without resource, when
\* the range over p.GroupVersions visits the packages in pkgOrder.
NeedResourceForNew(p, groupKind, pkgOrder) ==
    ApplyResourceMarkers(p, groupKind,
        PackagesOfGroup(p, groupKind.Group, pkgOrder), 1,
        BuildMetrics(p, groupKind, PackagesOfGroup(p, groupKind.Group, pkgOrder), 1,
                     {NewOutcome(groupKind)}))

(***************************************************************************)
(* Generate, after the resources are built: mapOrder is the order in which *)
(* the range over parser.CustomResourceStates visits its keys.             *)
(***************************************************************************)
\* Variant of HasMetrics that keeps every resource.
HasMetricsAlways(resource) == TRUE

\* len(resource.Metrics) > 0
HasMetrics(resource) == Len(resource.Metrics) > 0

\* The loop over parser.CustomResourceStates, from key number i on.
RECURSIVE CollectResources(_, _, _, _)
CollectResources(states, mapOrder, i, acc) ==
    IF i > Len(mapOrder) THEN acc
    ELSE IF HasMetrics(states[mapOrder[i]])
      THEN CollectResources(states, mapOrder, i + 1,
             Append(acc, [states[mapOrder[i]] EXCEPT !.Metrics =
                             SortSlice("generateMetrics", @).s]))
    ELSE CollectResources(states, mapOrder, i + 1, acc)

\* metrics.Spec.Resources after the sort, or the panic that ended it.
Sorted(r) ==
    IF r.st # "ok" THEN [st |-> r.st, Resources |-> <<>>]
    ELSE [st |-> "ok", Resources |-> r.s]

BuildDocument(states, mapOrder) ==
    Sorted(SortSlice("resources", CollectResources(states, mapOrder, 1, <<>>)))

(***************************************************************************)
(* Inputs: ctx.Roots.  Each input gives the root packages in their order,  *)
(* the roots that import metav1, what crd.Parser.NeedPackage records of a  *)
(* root in p.GroupVersions and p.Types, the type checker's resolution of   *)
(* the identifiers used as field types, and the types that embed TypeMeta  *)
(* and ObjectMeta, which crd.FindKubeKinds reports as kinds.               *)
(***************************************************************************)
Field(tag, type, markers) ==
    [hasTag |-> TRUE, jsonTag |-> tag, Type |-> type, Markers |-> markers]
UntaggedField(type, markers) ==
    [hasTag |-> FALSE, jsonTag |-> <<>>, Type |-> type, Markers |-> markers]
TypeInfo(markers, fields) == [Markers |-> markers, Fields |-> fields]

NoMarkers == [k \in {} |-> <<>>]
Tracked == GVKMarkerName :> <<GVKMarker>>
GV(g, v) == [Group |-> g, Version |-> v]

\* A kind type with one int32 field "value" carrying a gauge named name.
SimpleKind(markers, name) ==
    TypeInfo(markers,
             <<Field(<<"value">>, Ident(<<"i">>),
                     GaugeMarkerName :> <<GaugeMarker(name, <<>>, EmptyMap)>>)>>)

\* One package with a Kind "w" whose fields reach the types Spec ("s"),
\* Status ("t") and Cond ("c"); Secret ("x") is the type of skipped fields.
InputWidget ==
    [Roots |-> <<"p1">>,
     Metav1 |-> {"p1"},
     GroupVersions |-> "p1" :> GV(<<"g">>, <<"v", "1">>),
     Kinds |-> {TypeIdent("p1", <<"w">>)},
     TypesInfo |->
        <<"p1", <<"s">>>> :> Named("p1", <<"s">>)
        @@ <<"p1", <<"t">>>> :> Named("p1", <<"t">>)
        @@ <<"p1", <<"c">>>> :> Named("p1", <<"c">>)
        @@ <<"p1", <<"x">>>> :> Named("p1", <<"x">>)
        @@ <<"p1", <<"i">>>> :> Basic
        @@ <<"p1", <<"m">>>> :> Invalid,
     Types |->
        TypeIdent("p1", <<"w">>) :>
           TypeInfo(
             Tracked
             @@ GaugeMarkerName :>
                  <<GaugeMarker(<<"w">>, <<".", "gen">>,
                                "self" :> <<".">> @@ "name" :> <<".", "name">>)>>
             @@ LabelFromPathMarkerName :>
                  <<LabelFromPathMarker("team", <<".", "spec", ".", "team">>),
                    LabelFromPathMarker("team", <<".", "spec", ".", "team">>)>>,
             <<Field(<<",", "inline">>, SelectorExpr(Ident(<<"m">>), <<"o">>), NoMarkers),
               Field(<<"spec", ",", "omitempty">>, Ident(<<"s">>), NoMarkers),
               Field(<<"status">>, Ident(<<"t">>), NoMarkers),
               Field(<<"-">>, Ident(<<"x">>),
                     GaugeMarkerName :> <<GaugeMarker(<<"h">>, <<>>, EmptyMap)>>),
               UntaggedField(Ident(<<"x">>),
                     InfoMarkerName :> <<InfoMarker(<<"h">>, <<>>, EmptyMap)>>),
               Field(<<"-", ",">>, Ident(<<"i">>),
                     GaugeMarkerName :> <<GaugeMarker(<<"v">>, <<>>, EmptyMap)>>)>>)
        @@ TypeIdent("p1", <<"s">>) :>
           TypeInfo(NoMarkers,
             <<Field(<<"size">>, Ident(<<"i">>),
                     GaugeMarkerName :> <<GaugeMarker(<<"b">>, <<".", "max">>, EmptyMap)>>),
               Field(<<"cond">>, StarExpr(Ident(<<"c">>)), NoMarkers),
               Field(<<"items">>, ArrayType(Ident(<<"c">>)), NoMarkers),
               Field(<<"extra">>, MapType(Ident(<<"i">>), Ident(<<"c">>)), NoMarkers)>>)
        @@ TypeIdent("p1", <<"t">>) :>
           TypeInfo(NoMarkers,
             <<Field(<<"replicas">>, Ident(<<"i">>),
                     GaugeMarkerName :> <<GaugeMarker(<<"c">>, <<>>, EmptyMap)>>),
               Field(<<"cond">>, Ident(<<"c">>), NoMarkers)>>)
        @@ TypeIdent("p1", <<"c">>) :>
           TypeInfo(NoMarkers,
             <<Field(<<"state">>, Ident(<<"i">>),
                     GaugeMarkerName :> <<GaugeMarker(<<"a">>, <<>>, EmptyMap)>>
                     @@ InfoMarkerName :> <<InfoMarker(<<"a">>, <<".", "reason">>, EmptyMap)>>)>>)
        @@ TypeIdent("p1", <<"x">>) :>
           TypeInfo(GaugeMarkerName :> <<GaugeMarker(<<"x">>, <<>>, EmptyMap)>>,
             <<Field(<<"key">>, Ident(<<"i">>),
                     StateSetMarkerName :>
                        <<StateSetMarker(<<"x">>, Nil, EmptyMap)>>)>>)]

\* Two groups with five kinds: two without a metric name prefix, two with
\* one, and one kind without generators.
InputCluster ==
    [Roots |-> <<"p1", "p3">>,
     Metav1 |-> {"p1", "p3"},
     GroupVersions |-> "p1" :> GV(<<"g">>, <<"v", "1">>)
                       @@ "p3" :> GV(<<"h">>, <<"v", "1">>),
     Kinds |-> {TypeIdent("p1", <<"a">>), TypeIdent("p1", <<"b">>),
                TypeIdent("p1", <<"c">>), TypeIdent("p3", <<"a">>),
                TypeIdent("p3", <<"b">>)},
     TypesInfo |-> <<"p1", <<"i">>>> :> Basic @@ <<"p3", <<"i">>>> :> Basic,
     Types |->
        TypeIdent("p1", <<"a">>) :> SimpleKind(Tracked, <<"a">>)
        @@ TypeIdent("p1", <<"b">>) :>
             SimpleKind(Tracked @@ NameMarkerName :> <<NamePrefixMarker(<<"b">>)>>,
                        <<"b">>)
        @@ TypeIdent("p1", <<"c">>) :> TypeInfo(Tracked, <<>>)
        @@ TypeIdent("p3", <<"a">>) :> SimpleKind(Tracked, <<"a">>)
        @@ TypeIdent("p3", <<"b">>) :>
             SimpleKind(Tracked @@ NameMarkerName :> <<NamePrefixMarker(<<"a">>)>>,
                        <<"b">>)]

\* The root p0 does not import metav1.  In p1, kind "n" has a field of type
\* *n; kind "a" has a field of type b whose field has type a; kind "w" is
\* not recursive; kind "c" has a gauge whose path expression is an array
\* index.
InputCyclic ==
    [Roots |-> <<"p0", "p1">>,
     Metav1 |-> {"p1"},
     GroupVersions |-> "p0" :> GV(<<"g">>, <<"v", "2">>)
                       @@ "p1" :> GV(<<"g">>, <<"v", "1">>),
     Kinds |-> {TypeIdent("p0", <<"w">>), TypeIdent("p1", <<"n">>),
                TypeIdent("p1", <<"a">>), TypeIdent("p1", <<"w">>),
                TypeIdent("p1", <<"c">>)},
     TypesInfo |->
        <<"p1", <<"n">>>> :> Named("p1", <<"n">>)
        @@ <<"p1", <<"a">>>> :> Named("p1", <<"a">>)
        @@ <<"p1", <<"b">>>> :> Named("p1", <<"b">>)
        @@ <<"p1", <<"i">>>> :> Basic
        @@ <<"p0", <<"i">>>> :> Basic,
     Types |->
        TypeIdent("p0", <<"w">>) :> SimpleKind(Tracked, <<"w">>)
        @@ TypeIdent("p1", <<"n">>) :>
           TypeInfo(Tracked,
             <<Field(<<"value">>, Ident(<<"i">>),
                     GaugeMarkerName :> <<GaugeMarker(<<"n">>, <<>>, EmptyMap)>>),
               Field(<<"next">>, StarExpr(Ident(<<"n">>)), NoMarkers)>>)
        @@ TypeIdent("p1", <<"a">>) :>
           TypeInfo(Tracked, <<Field(<<"b">>, Ident(<<"b">>), NoMarkers)>>)
        @@ TypeIdent("p1", <<"b">>) :>
           TypeInfo(NoMarkers,
             <<Field(<<"value">>, Ident(<<"i">>),
                     InfoMarkerName :> <<InfoMarker(<<"b">>, <<>>, EmptyMap)>>),
               Field(<<"a">>, Ident(<<"a">>), NoMarkers)>>)
        @@ TypeIdent("p1", <<"w">>) :> SimpleKind(Tracked, <<"w">>)
        @@ TypeIdent("p1", <<"c">>) :>
             TypeInfo(Tracked,
               <<Field(<<"items">>, ArrayType(Ident(<<"i">>)),
                       GaugeMarkerName :>
                          <<GaugeMarker(<<"c">>, <<"[0]">>, EmptyMap)>>)>>)]

\* One group in two versions.  Kind "w" is a tracked kind of both packages;
\* "x" is a tracked kind of p1; "y" is a tracked kind of p2 and a tracked
\* type of p1 that is no kind; kind "b" of p2 has a field of p1's type x.
InputVersions ==
    [Roots |-> <<"p1", "p2">>,
     Metav1 |-> {"p1", "p2"},
     GroupVersions |-> "p1" :> GV(<<"g">>, <<"v", "1">>)
                       @@ "p2" :> GV(<<"g">>, <<"v", "2">>),
     Kinds |-> {TypeIdent("p1", <<"w">>), TypeIdent("p2", <<"w">>),
                TypeIdent("p1", <<"x">>), TypeIdent("p2", <<"y">>),
                TypeIdent("p2", <<"b">>)},
     TypesInfo |->
        <<"p1", <<"i">>>> :> Basic @@ <<"p2", <<"i">>>> :> Basic
        @@ <<"p2", <<"x">>>> :> Named("p1", <<"x">>),
     Types |->
        TypeIdent("p1", <<"w">>) :> SimpleKind(Tracked, <<"w">>)
        @@ TypeIdent("p2", <<"w">>) :> SimpleKind(Tracked, <<"w">>)
        @@ TypeIdent("p1", <<"y">>) :> SimpleKind(Tracked, <<"a">>)
        @@ TypeIdent("p2", <<"y">>) :> SimpleKind(Tracked, <<"a">>)
        @@ TypeIdent("p1", <<"x">>) :>
             SimpleKind(Tracked
                        @@ NameMarkerName :> <<NamePrefixMarker(<<"a">>)>>
                        @@ LabelFromPathMarkerName :>
                             <<LabelFromPathMarker("team", <<".", "a">>)>>,
                        <<"x">>)
        @@ TypeIdent("p2", <<"b">>) :>
             TypeInfo(Tracked,
               <<Field(<<"ref">>, Ident(<<"x">>),
                       InfoMarkerName :> <<InfoMarker(<<"b">>, <<>>, EmptyMap)>>)>>)]

\* The same packages with the roots in the other order: p2's kind "b" is
\* asked for while p1 is not loaded.
InputVersionsReversed == [InputVersions EXCEPT !.Roots = <<"p2", "p1">>]

\* Kind "x" is a tracked kind of p1; the root before it, p2, has a type "x"
\* that is no kind and not tracked but carries resource markers, and a
\* kind "v".
InputNested ==
    [Roots |-> <<"p2", "p1">>,
     Metav1 |-> {"p1", "p2"},
     GroupVersions |-> "p1" :> GV(<<"g">>, <<"v", "1">>)
                       @@ "p2" :> GV(<<"g">>, <<"v", "2">>),
     Kinds |-> {TypeIdent("p1", <<"x">>), TypeIdent("p2", <<"v">>)},
     TypesInfo |-> <<"p1", <<"i">>>> :> Basic @@ <<"p2", <<"i">>>> :> Basic,
     Types |->
        TypeIdent("p2", <<"v">>) :> SimpleKind(Tracked, <<"v">>)
        @@ TypeIdent("p1", <<"x">>) :>
             SimpleKind(Tracked
                        @@ NameMarkerName :> <<NamePrefixMarker(<<"a">>)>>
                        @@ LabelFromPathMarkerName :>
                             <<LabelFromPathMarker("team", <<".", "a">>)>>,
                        <<"x">>)
        @@ TypeIdent("p2", <<"x">>) :>
             SimpleKind(NameMarkerName :> <<NamePrefixMarker(<<"b">>)>>
                        @@ LabelFromPathMarkerName :>
                             <<LabelFromPathMarker("team", <<".", "b">>)>>,
                        <<"x", "2">>)]

\* One root that imports metav1 and has a type but no kind.
InputEmpty ==
    [Roots |-> <<"p1">>,
     Metav1 |-> {"p1"},
     GroupVersions |-> "p1" :> GV(<<"g">>, <<"v", "1">>),
     Kinds |-> {},
     TypesInfo |-> <<"p1", <<"i">>>> :> Basic,
     Types |-> TypeIdent("p1", <<"w">>) :> SimpleKind(Tracked, <<"w">>)]

Inputs == {InputWidget, InputCluster, InputCyclic, InputVersions,
           InputVersionsReversed, InputNested, InputEmpty}

(***************************************************************************)
(* State.                                                                  *)
(***************************************************************************)
VARIABLES
    input,                  \* ctx.Roots and what the loader knows of each root
    TypesInfo,              \* the type checker's resolution of identifiers
    GroupVersions,          \* p.GroupVersions: package -> [Group, Version]
    Types,                  \* p.Types: TypeIdent -> type info
    rootIndex,              \* number of roots the loop of Generate is done with or in
    kubeKinds,              \* what crd.FindKubeKinds returned for the current root
    pending,                \* kinds the range over kubeKinds has yet to visit
    FlattenedMetrics,       \* p.FlattenedMetrics
    CustomResourceStates,   \* p.CustomResourceStates: GroupKind -> Resource
    pkgErrors,              \* errors added to packages with pkg.AddError
    status,                 \* "running", "done", or how the process ended
    document,               \* metrics.Spec.Resources once Generate has built it
    callLog,                \* completed calls of NeedMetricsGeneratorFor, in order
    assembled,              \* GroupKind -> what the Assembler returned for its Kind type
    loadedAt,               \* GroupKind -> the packages loaded when its resource was built
    scratch,                \* the resource the annotation driver applies markers to
    lastApply,              \* the driver's last step: [marker, before, err]
    lastGenerator,          \* the last ToGenerator call: [marker, basePath, r]
    lastField               \* the last generatorsFor call: [pkg, rawType, r]

vars == <<input, TypesInfo, GroupVersions, Types, rootIndex, kubeKinds, pending,
          FlattenedMetrics, CustomResourceStates, pkgErrors, status, document,
          callLog, assembled, loadedAt, scratch, lastApply, lastGenerator,
          lastField>>

inputVars == <<input, TypesInfo>>
loaderVars == <<GroupVersions, Types, rootIndex, kubeKinds, pending>>
driverVars == <<scratch, lastApply, lastGenerator, lastField>>
pipelineVars == <<FlattenedMetrics, CustomResourceStates, pkgErrors, status,
                  document, callLog, assembled, loadedAt>>

\* The parser as the operators above read it.
Parser ==
    [GroupVersions |-> GroupVersions, Types |-> Types, TypesInfo |-> TypesInfo,
     FlattenedMetrics |-> FlattenedMetrics]

NoApply == [marker |-> GVKMarker, before |-> NewResource(GroupKind(<<>>, <<>>)),
            err |-> NoErr]

NoGenerator == [marker |-> GVKMarker, basePath |-> <<>>, r |-> [st |-> "none"]]

NoField == [pkg |-> "", rawType |-> [kind |-> "none"], r |-> [st |-> "none"]]

\* newParser: the maps are empty.
InitParser ==
    /\ FlattenedMetrics = [t \in {} |-> <<>>]
    /\ CustomResourceStates = [gk \in {} |-> <<>>]
    /\ pkgErrors = <<>>
    /\ status = "running"
    /\ document = <<>>
    /\ callLog = <<>>
    /\ assembled = [gk \in {} |-> <<>>]
    /\ loadedAt = [gk \in {} |-> {}]

\* Generate before its loop over ctx.Roots: no package is loaded.
InitInput(in) ==
    /\ input = in
    /\ TypesInfo = in.TypesInfo
    /\ GroupVersions = [pkg \in {} |-> <<>>]
    /\ Types = [t \in {} |-> <<>>]
    /\ rootIndex = 0
    /\ kubeKinds = {}
    /\ pending = {}

InitDrivers ==
    /\ scratch = NewResource(GroupKind(<<>>, <<>>))
    /\ lastApply = NoApply
    /\ lastGenerator = NoGenerator
    /\ lastField = NoField

Init ==
    /\ \E in \in Inputs : InitInput(in)
    /\ InitParser
    /\ InitDrivers

(***************************************************************************)
(* The loop of Generate over ctx.Roots: a root that does not import metav1 *)
(* is skipped; any other root is loaded with parser.NeedPackage and        *)
(* crd.FindKubeKinds reports the kinds of all packages loaded so far.      *)
(***************************************************************************)
\* What crd.Parser.NeedPackage(root) adds to p.Types.
TypesOfPackage(in, root) ==
    [t \in {u \in DOMAIN in.Types : u.Package = root} |-> in.Types[t]]

\* crd.FindKubeKinds: the group kinds of the loaded types that embed
\* TypeMeta and ObjectMeta.
FindKubeKinds(in, types, groupVersions) ==
    {GroupKind(groupVersions[t.Package].Group, t.Name) :
        t \in DOMAIN types \cap in.Kinds}

\* The root the loop is about to visit.
NextRoot == input.Roots[rootIndex + 1]

AtLoopHead ==
    /\ status = "running"
    /\ pending = {}
    /\ rootIndex < Len(input.Roots)

\* metav1 == nil: continue
SkipRoot ==
    /\ AtLoopHead
    /\ NextRoot \notin input.Metav1
    /\ rootIndex' = rootIndex + 1
    /\ UNCHANGED <<GroupVersions, Types, kubeKinds, pending, inputVars,
                   pipelineVars, driverVars>>

\* The kinds found, or the end of the process when there is none.
StartKinds(found) ==
    /\ kubeKinds' = found
    /\ IF found = {}
         THEN /\ status' = "fatal: no objects in the roots"
              /\ pending' = {}
       ELSE /\ pending' = found
            /\ UNCHANGED status

NeedPackage ==
    /\ AtLoopHead
    /\ NextRoot \in input.Metav1
    /\ rootIndex' = rootIndex + 1
    /\ GroupVersions' = GroupVersions @@ (NextRoot :> input.GroupVersions[NextRoot])
    /\ Types' = Types @@ TypesOfPackage(input, NextRoot)
    /\ StartKinds(FindKubeKinds(input, Types @@ TypesOfPackage(input, NextRoot),
                                GroupVersions
                                  @@ (NextRoot :> input.GroupVersions[NextRoot])))
    /\ UNCHANGED <<FlattenedMetrics, CustomResourceStates, pkgErrors, document,
                   callLog, assembled, loadedAt, inputVars, driverVars>>

(***************************************************************************)
(* parser.NeedResourceFor(groupKind), called by Generate for every kind of *)
(* kubeKinds in the order of the range over that map, after every root.    *)
(***************************************************************************)
\* p.CustomResourceStates[groupKind] = resource, or the end of the process.
StoreResource(groupKind, o) ==
    IF o.st # "ok"
      THEN /\ status' = o.st
           /\ UNCHANGED <<FlattenedMetrics, CustomResourceStates,
                          pkgErrors, document, callLog, assembled, loadedAt>>
    ELSE /\ CustomResourceStates' =
               CustomResourceStates @@ (groupKind :> o.resource)
         /\ pkgErrors' = pkgErrors \o o.errors
         /\ callLog' = callLog \o o.trace
         /\ assembled' = assembled @@ (groupKind :> o.assembled)
         /\ loadedAt' = loadedAt @@ (groupKind :> DOMAIN GroupVersions)
         /\ UNCHANGED <<FlattenedMetrics, status, document>>

NeedResourceFor(groupKind) ==
    /\ status = "running"
    /\ groupKind \in pending
    /\ pending' = pending \ {groupKind}
    /\ IF groupKind \in DOMAIN CustomResourceStates
         THEN UNCHANGED pipelineVars
       ELSE \E pkgOrder \in Perms(DOMAIN GroupVersions) :
              \E o \in NeedResourceForNew(Parser, groupKind, pkgOrder) :
                 StoreResource(groupKind, o)
    /\ UNCHANGED <<GroupVersions, Types, rootIndex, kubeKinds, inputVars, driverVars>>

(***************************************************************************)
(* The rest of Generate once the loop over the roots has ended: filter,    *)
(* sort and hand the document to the writer.                               *)
(***************************************************************************)
\* ctx.WriteYAML of the document d, unless the sort has panicked.
WriteDocument(d) ==
    /\ status' = IF d.st = "ok" THEN "done" ELSE d.st
    /\ document' = d.Resources

Generate ==
    /\ status = "running"
    /\ pending = {}
    /\ rootIndex = Len(input.Roots)
    /\ \E mapOrder \in Perms(DOMAIN CustomResourceStates) :
          WriteDocument(BuildDocument(CustomResourceStates, mapOrder))
    /\ UNCHANGED <<FlattenedMetrics, CustomResourceStates, pkgErrors, callLog,
                   assembled, loadedAt, loaderVars, inputVars, driverVars>>

Next ==
    \/ SkipRoot
    \/ NeedPackage
    \/ \E groupKind \in pending : NeedResourceFor(groupKind)
    \/ Generate

Spec == Init /\ [][Next]_vars

(***************************************************************************)
(* The annotation driver: resource markers applied one after the other to  *)
(* one resource, as the second loop of NeedResourceFor applies the markers *)
(* of the Kind types.                                                      *)
(***************************************************************************)
DriverPaths ==
    {<<>>, <<".">>, <<".", "a">>, <<".", "b">>, <<".", "a", ".", "b">>,
     <<".", "b", ".", "a">>, <<"[0]">>, <<".", "a", "}{", ".", "b">>, <<"%">>}

DriverMarkers ==
    {LabelFromPathMarker(name, path) : name \in {"team", "env"}, path \in DriverPaths}
    \cup {NamePrefixMarker(<<"a">>), NamePrefixMarker(<<"b">>)}

\* The driver's step: r is what ApplyToResource(val, scratch) returned.
Record(val, r) ==
    /\ scratch' = r.resource
    /\ lastApply' = [marker |-> val, before |-> scratch, err |-> r.err]

Apply(val) ==
    /\ Record(val, ApplyToResource(val, scratch))
    /\ UNCHANGED <<inputVars, loaderVars, pipelineVars, lastGenerator, lastField>>

\* The parser after NeedPackage of InputWidget's root, and the resource
\* NeedResourceFor starts from.
InitApply ==
    /\ input = InputWidget
    /\ TypesInfo = InputWidget.TypesInfo
    /\ GroupVersions = InputWidget.GroupVersions
    /\ Types = InputWidget.Types
    /\ rootIndex = 1
    /\ kubeKinds = FindKubeKinds(InputWidget, InputWidget.Types,
                                 InputWidget.GroupVersions)
    /\ pending = {}
    /\ InitParser
    /\ scratch = NewResource(GroupKind(<<"g">>, <<"w">>))
    /\ lastApply = NoApply
    /\ lastGenerator = NoGenerator
    /\ lastField = NoField

NextApply == \E val \in DriverMarkers : Apply(val)

SpecApply == InitApply /\ [][NextApply]_vars

(***************************************************************************)
(* The generator driver: ToGenerator called on generator markers of every  *)
(* kind, with and without a path expression and with label path maps, as   *)
(* generatorsFromMarkers calls it with the base path of a type or field.   *)
(***************************************************************************)
GeneratorPaths == {<<>>, <<".">>, <<".", "a">>, <<".", "a", ".", "b">>, <<"[0]">>}

GeneratorLabels ==
    {EmptyMap, "team" :> <<".">>, "team" :> <<".", "a">>,
     "team" :> <<".">> @@ "env" :> <<".", "b">>, "team" :> <<"%">>}

GeneratorBasePaths == {<<>>, <<"spec">>, <<"spec", "cond">>}

GeneratorMarkers ==
    {GaugeMarker(<<"a">>, path, labels) :
        path \in GeneratorPaths, labels \in GeneratorLabels}
    \cup {InfoMarker(<<"a">>, path, labels) :
        path \in GeneratorPaths, labels \in GeneratorLabels}
    \cup {StateSetMarker(<<"a">>, Ptr(path), labels) :
        path \in GeneratorPaths, labels \in GeneratorLabels}
    \cup {StateSetMarker(<<"a">>, Nil, labels) : labels \in GeneratorLabels}

\* The driver's step: r is what ToGenerator(val, basePath) returned.
RecordGenerator(val, basePath, r) ==
    lastGenerator' = [marker |-> val, basePath |-> basePath, r |-> r]

Convert(val, basePath) ==
    /\ RecordGenerator(val, basePath, ToGenerator(val, basePath))
    /\ UNCHANGED <<inputVars, loaderVars, pipelineVars, scratch, lastApply, lastField>>

NextToGenerator ==
    \E val \in GeneratorMarkers, basePath \in GeneratorBasePaths :
        Convert(val, basePath)

SpecToGenerator == InitApply /\ [][NextToGenerator]_vars

(***************************************************************************)
(* The field driver: generatorsFor called for field types of every shape   *)
(* in the package of InputWidget, as NeedMetricsGeneratorFor calls it for  *)
(* the type of a field.                                                    *)
(***************************************************************************)
\* The names a field type can use: the named types "s", "t", "c" and "x",
\* the basic type "i" and the name "u" the type checker cannot resolve.
FieldTypeNames == {<<"s">>, <<"t">>, <<"c">>, <<"x">>, <<"i">>, <<"u">>}

PlainFieldTypes ==
    {Ident(name) : name \in FieldTypeNames} \cup {StructType, InterfaceType}

\* One more level of pointer, array, map and package selector.
Wrapped(types) ==
    PlainFieldTypes
    \cup {StarExpr(t) : t \in types}
    \cup {ArrayType(t) : t \in types}
    \cup {MapType(Ident(<<"i">>), t) : t \in types}
    \cup {SelectorExpr(Ident(<<"m">>), name) : name \in FieldTypeNames}

FieldTypes == Wrapped(Wrapped(PlainFieldTypes))

\* The driver's step: r is what generatorsFor returned.
RecordField(pkg, rawType, r) ==
    lastField' = [pkg |-> pkg, rawType |-> rawType, r |-> r]

CallGeneratorsFor(rawType) ==
    /\ \E r \in generatorsFor(Parser, "p1", rawType, {}) :
          RecordField("p1", rawType, r)
    /\ UNCHANGED <<inputVars, loaderVars, pipelineVars, scratch, lastApply,
                   lastGenerator>>

NextGeneratorsFor == \E rawType \in FieldTypes : CallGeneratorsFor(rawType)

SpecGeneratorsFor == InitApply /\ [][NextGeneratorsFor]_vars

(***************************************************************************)
(* Reference definitions for the properties.                               *)
(***************************************************************************)
\* The types of the loaded packages pkgs, of the group, whose name is the
\* Kind and that carry the tracked-kind marker: the Kind types the first
\* loop of NeedResourceFor walks when pkgs are the packages loaded.
TrackedTypesAt(groupKind, pkgs) ==
    {t \in DOMAIN Types :
        /\ t.Package \in pkgs
        /\ GroupVersions[t.Package].Group = groupKind.Group
        /\ t.Name = groupKind.Kind
        /\ HasGVKMarker(Types[t])}

\* The Kind types walked for a stored resource.
TrackedTypes(groupKind) == TrackedTypesAt(groupKind, loadedAt[groupKind])

\* A field that is serialized: it has a json tag and the tag is not "-".
Serialized(f) == f.hasTag /\ f.jsonTag # <<"-">>

\* The named type a field type leads to through pointers, if it has one.
RECURSIVE NamedTypeOf(_, _)
NamedTypeOf(pkg, type) ==
    IF type.kind = "StarExpr" THEN NamedTypeOf(pkg, type.X)
    ELSE IF /\ type.kind = "Ident"
            /\ <<pkg, type.Name>> \in DOMAIN TypesInfo
            /\ TypesInfo[<<pkg, type.Name>>].kind = "Named"
      THEN {TypeIdent(TypesInfo[<<pkg, type.Name>>].Pkg,
                      TypesInfo[<<pkg, type.Name>>].Name)}
    ELSE {}

Range(s) == {s[i] : i \in DOMAIN s}

GeneratorMarkersOf(markers) ==
    UNION {{v \in Range(markers[k]) : IsGeneratorMarker(v)} : k \in DOMAIN markers}

\* The generator annotations met when descending from typ through
\* serialized fields, each with the chain of external field names that
\* leads to it, and the types the descent enters.  seen holds the types the
\* descent is inside of: a type is not entered again below itself.
RECURSIVE Sites(_, _, _)
Sites(typ, chain, seen) ==
    IF typ \in seen \/ typ \notin DOMAIN Types THEN {}
    ELSE {[val |-> m, chain |-> chain, typ |-> typ] :
             m \in GeneratorMarkersOf(Types[typ].Markers)}
         \cup UNION {
               {[val |-> m, chain |-> Append(chain, FieldName(Types[typ].Fields[n])),
                 typ |-> typ] :
                   m \in GeneratorMarkersOf(Types[typ].Fields[n].Markers)}
               \cup UNION {Sites(t, Append(chain, FieldName(Types[typ].Fields[n])),
                                 seen \cup {typ}) :
                             t \in NamedTypeOf(typ.Package, Types[typ].Fields[n].Type)}
               : n \in {k \in 1..Len(Types[typ].Fields) :
                           Serialized(Types[typ].Fields[k])}}

RECURSIVE TypesEntered(_, _)
TypesEntered(typ, seen) ==
    IF typ \in seen \/ typ \notin DOMAIN Types THEN {}
    ELSE {typ} \cup UNION {
            UNION {TypesEntered(t, seen \cup {typ}) :
                      t \in NamedTypeOf(typ.Package, Types[typ].Fields[n].Type)}
            : n \in {k \in 1..Len(Types[typ].Fields) :
                        Serialized(Types[typ].Fields[k])}}

Count(s, x) == Cardinality({i \in DOMAIN s : s[i] = x})
IsPermutation(s, t) ==
    /\ Len(s) = Len(t)
    /\ \A x \in Range(s) \cup Range(t) : Count(s, x) = Count(t, x)
NameSorted(gens) ==
    \A i, j \in DOMAIN gens : i < j => ~StrLess(gens[j].Name, gens[i].Name)

GroupKindOf(resource) ==
    GroupKind(resource.GroupVersionKind.Group, resource.GroupVersionKind.Kind)

(***************************************************************************)
(* C1.  Every call of NeedMetricsGeneratorFor returns, also on a type      *)
(* graph with a self-referential type or a cycle of types: the walk never  *)
(* nests without end, so the process never exhausts its stack.             *)
(***************************************************************************)
C1_WalkTerminates == status # "stackoverflow"

(***************************************************************************)
(* C2.  Once NeedMetricsGeneratorFor has returned for a type, every later  *)
(* call for that type in the same run returns no generators.               *)
(***************************************************************************)
C2_RepeatedCallEmpty ==
    \A i, j \in DOMAIN callLog :
        (i < j /\ callLog[i].typ = callLog[j].typ) => callLog[j].n = 0

(***************************************************************************)
(* C3.  In every stored resource the Gauge generators are exactly the      *)
(* Gauge annotations met from the Kind type through chains of serialized   *)
(* fields, each with the path: the external names of the chain followed by *)
(* the annotation's resolved path expression.  For the widget input this   *)
(* gives the path <<"status", "replicas">> to the gauge on field replicas  *)
(* of the type of field status.                                            *)
(***************************************************************************)
GaugePaths(gens) ==
    {<<gens[n].Name, gens[n].Each.Path>> :
        n \in {k \in DOMAIN gens : gens[k].Each.Type = "Gauge"}}

ExpectedGaugePaths(typ) ==
    {<<s.val.Name, s.chain \o Parse(s.val.JSONPath).val>> :
        s \in {x \in Sites(typ, <<>>, {}) : x.val.kind = "Gauge"}}

C3_GaugePathIsFieldChain ==
    \A gk \in DOMAIN CustomResourceStates :
        \A t \in TrackedTypes(gk) :
            /\ GaugePaths(CustomResourceStates[gk].Metrics) = ExpectedGaugePaths(t)
            /\ (input = InputWidget =>
                  <<(<<"c">>), <<"status", "replicas">>>>
                      \in GaugePaths(CustomResourceStates[gk].Metrics))

C3_Witness ==
    \E gk \in DOMAIN CustomResourceStates :
        \E n \in DOMAIN CustomResourceStates[gk].Metrics :
            /\ CustomResourceStates[gk].Metrics[n].Each.Type = "Gauge"
            /\ CustomResourceStates[gk].Metrics[n].Each.Path = <<"status", "replicas">>

(***************************************************************************)
(* C4.  A field without a json tag and a field whose tag is exactly "-"    *)
(* add no generators and request no type: the loop body returns nothing    *)
(* for them, a stored resource holds only generators of annotations met    *)
(* through serialized fields, and only types met through serialized fields *)
(* are ever walked.                                                        *)
(***************************************************************************)
C4_SkippedFieldsContributeNothing ==
    /\ \A typ \in DOMAIN Types :
          \A n \in 1..Len(Types[typ].Fields) :
              ~Serialized(Types[typ].Fields[n]) =>
                  FieldGenerators(Parser, typ, Types[typ].Fields[n], {})
                      = {OkResult(<<>>, <<>>)}
    /\ \A gk \in DOMAIN CustomResourceStates :
          \A t \in TrackedTypes(gk) :
              {<<g.Name, g.Each.Type>> : g \in Range(CustomResourceStates[gk].Metrics)}
                  = {<<s.val.Name, s.val.kind>> : s \in Sites(t, <<>>, {})}
    /\ \A n \in DOMAIN callLog :
          \E gk \in DOMAIN CustomResourceStates :
              \E t \in TrackedTypes(gk) : callLog[n].typ \in TypesEntered(t, {})

\* A resource is stored for a Kind type that has an annotated field with the
\* tag "-" and an annotated field without a tag, both of a named type.
C4_Witness ==
    \E gk \in DOMAIN CustomResourceStates :
        \E t \in TrackedTypes(gk) :
            /\ \E n \in 1..Len(Types[t].Fields) :
                  /\ Types[t].Fields[n].hasTag
                  /\ Types[t].Fields[n].jsonTag = <<"-">>
                  /\ GeneratorMarkersOf(Types[t].Fields[n].Markers) # {}
                  /\ NamedTypeOf(t.Package, Types[t].Fields[n].Type) # {}
            /\ \E n \in 1..Len(Types[t].Fields) :
                  /\ ~Types[t].Fields[n].hasTag
                  /\ GeneratorMarkersOf(Types[t].Fields[n].Markers) # {}
                  /\ NamedTypeOf(t.Package, Types[t].Fields[n].Type) # {}
            /\ Len(CustomResourceStates[gk].Metrics) > 0

(***************************************************************************)
(* C5.  A LabelFromPath annotation applied to a resource that already has  *)
(* the label: when the newly resolved path differs from the stored one the *)
(* call returns "duplicate definition for label" and the stored path stays *)
(* as it was; when it is the same path the call succeeds and the label map *)
(* is unchanged, with its one entry for that name.                         *)
(***************************************************************************)
LabelAlreadyPresent ==
    /\ lastApply.marker.kind = "LabelFromPath"
    /\ ~lastApply.before.LabelsFromPath.isNil
    /\ lastApply.marker.Name \in DOMAIN lastApply.before.LabelsFromPath.v
    /\ Parse(lastApply.marker.JSONPath).err = NoErr

C5_LabelConflict ==
    LabelAlreadyPresent =>
        IF Parse(lastApply.marker.JSONPath).val
              # lastApply.before.LabelsFromPath.v[lastApply.marker.Name]
          THEN /\ lastApply.err = "duplicate definition for label"
               /\ scratch.LabelsFromPath.v[lastApply.marker.Name]
                     = lastApply.before.LabelsFromPath.v[lastApply.marker.Name]
        ELSE /\ lastApply.err = NoErr
             /\ scratch.LabelsFromPath.v = lastApply.before.LabelsFromPath.v

\* A second definition of a label with a path of the same length and another
\* element has been refused.
C5_Witness ==
    /\ LabelAlreadyPresent
    /\ lastApply.err = "duplicate definition for label"
    /\ Len(Parse(lastApply.marker.JSONPath).val)
          = Len(lastApply.before.LabelsFromPath.v[lastApply.marker.Name])
    /\ scratch.LabelsFromPath.v = lastApply.before.LabelsFromPath.v

(***************************************************************************)
(* C6.  The document of a run is the document of any other run over the    *)
(* same input: a finished run has the document that the reference run,     *)
(* which visits every map in one fixed order, produces.                    *)
(***************************************************************************)
ReferenceOrder(S) == CHOOSE s \in Perms(S) : TRUE

\* The parser as it was when only the packages pkgs were loaded.
ParserAt(pkgs) ==
    [GroupVersions |-> [pkg \in pkgs |-> GroupVersions[pkg]],
     Types |-> [t \in {u \in DOMAIN Types : u.Package \in pkgs} |-> Types[t]],
     TypesInfo |-> TypesInfo,
     FlattenedMetrics |-> FlattenedMetrics]

\* The resource the reference run builds for a kind: the package map is
\* visited in the reference order, and of the outcomes the marker maps
\* allow the reference run has one fixed outcome.
ReferenceResource(gk) ==
    (CHOOSE o \in NeedResourceForNew(ParserAt(loadedAt[gk]), gk,
                                     ReferenceOrder(loadedAt[gk])) :
        o.st = "ok").resource

ReferenceDocument ==
    BuildDocument([gk \in DOMAIN CustomResourceStates |-> ReferenceResource(gk)],
                  ReferenceOrder(DOMAIN CustomResourceStates))

C6_Deterministic ==
    status = "done" => ReferenceDocument = [st |-> "ok", Resources |-> document]

(***************************************************************************)
(* C7.  Every resource of the document has at least one generator, and     *)
(* every built resource with at least one generator is in the document     *)
(* exactly once.                                                           *)
(***************************************************************************)
C7_DocumentHoldsNonEmptyResources ==
    status = "done" =>
        /\ \A i \in DOMAIN document : Len(document[i].Metrics) >= 1
        /\ \A gk \in DOMAIN CustomResourceStates :
              Len(CustomResourceStates[gk].Metrics) >= 1 =>
                  Cardinality({i \in DOMAIN document :
                                  GroupKindOf(document[i]) = gk}) = 1

\* A document of several resources was built while a resource without
\* generators is stored.
C7_Witness ==
    /\ status = "done"
    /\ Len(document) >= 2
    /\ \E gk \in DOMAIN CustomResourceStates :
          Len(CustomResourceStates[gk].Metrics) = 0

(***************************************************************************)
(* C8.  The generators of every stored resource and of every resource of   *)
(* the document are in non-decreasing order of Name and are a permutation  *)
(* of what the Generator Assembler returned for the Kind type.             *)
(***************************************************************************)
C8_MetricsSortedPermutation ==
    /\ \A gk \in DOMAIN CustomResourceStates :
          /\ NameSorted(CustomResourceStates[gk].Metrics)
          /\ IsPermutation(CustomResourceStates[gk].Metrics, assembled[gk])
    /\ status = "done" =>
          \A i \in DOMAIN document :
              /\ NameSorted(document[i].Metrics)
              /\ IsPermutation(document[i].Metrics, assembled[GroupKindOf(document[i])])

\* The document holds a resource with several generators that the Assembler
\* returned in another order.
C8_Witness ==
    /\ status = "done"
    /\ \E i \in DOMAIN document :
          /\ Len(document[i].Metrics) >= 3
          /\ document[i].Metrics # assembled[GroupKindOf(document[i])]

(***************************************************************************)
(* C9.  Of two resources of the document that both have a MetricNamePrefix *)
(* the one with the smaller prefix comes first.                            *)
(***************************************************************************)
C9_PrefixedResourcesOrdered ==
    status = "done" =>
        \A i, j \in DOMAIN document :
            (/\ ~document[i].MetricNamePrefix.isNil
             /\ ~document[j].MetricNamePrefix.isNil
             /\ StrLess(document[i].MetricNamePrefix.v, document[j].MetricNamePrefix.v))
                => i < j

(***************************************************************************)
(* C10.  Of two resources of the document that both have no                *)
(* MetricNamePrefix the one with the smaller Group/Version/Kind string     *)
(* comes first.                                                            *)
(***************************************************************************)
C10_UnprefixedResourcesOrdered ==
    status = "done" =>
        \A i, j \in DOMAIN document :
            (/\ document[i].MetricNamePrefix.isNil
             /\ document[j].MetricNamePrefix.isNil
             /\ StrLess(GVKString(document[i]), GVKString(document[j])))
                => i < j

\* The document holds two resources without prefix.
C10_Witness ==
    /\ status = "done"
    /\ \E i, j \in DOMAIN document :
          /\ i # j
          /\ document[i].MetricNamePrefix.isNil
          /\ document[j].MetricNamePrefix.isNil

(***************************************************************************)
(* C11.  The Version of a resource is the Version of the package of its    *)
(* group, among the packages loaded when NeedResourceFor builds it, whose  *)
(* Kind type carries the tracked-kind marker.  When two such packages have *)
(* different Versions no resource is stored for the group kind and the     *)
(* run ends with the fatal error.  No step changes the Version of a stored *)
(* resource.                                                               *)
(***************************************************************************)
TrackedVersionsAt(groupKind, pkgs) ==
    {GroupVersions[t.Package].Version : t \in TrackedTypesAt(groupKind, pkgs)}

\* The versions NeedResourceFor met when it built the stored resource.
TrackedVersions(groupKind) == TrackedVersionsAt(groupKind, loadedAt[groupKind])

\* The loaded packages hold the Kind in two versions.
VersionConflict(groupKind) ==
    Cardinality(TrackedVersionsAt(groupKind, DOMAIN GroupVersions)) >= 2

VersionKept ==
    \A gk \in DOMAIN CustomResourceStates :
        /\ gk \in DOMAIN CustomResourceStates'
        /\ CustomResourceStates'[gk].GroupVersionKind.Version
              = CustomResourceStates[gk].GroupVersionKind.Version

VersionFromTrackedPackage ==
    /\ \A gk \in DOMAIN CustomResourceStates :
          /\ Cardinality(TrackedVersions(gk)) <= 1
          /\ \A v \in TrackedVersions(gk) :
                CustomResourceStates[gk].GroupVersionKind.Version = v
          /\ TrackedVersions(gk) = {} =>
                CustomResourceStates[gk].GroupVersionKind.Version = <<>>
    /\ status = VersionAlreadySet =>
          \E gk \in kubeKinds \ (pending \cup DOMAIN CustomResourceStates) :
              VersionConflict(gk)

C11_VersionSetOnce == []VersionFromTrackedPackage /\ [][VersionKept]_vars

\* The run has ended with the fatal error of the Version check: the kind in
\* two versions has no resource, and a kind that had one version when it
\* was asked for has its resource with that version.
C11_Witness ==
    /\ status = VersionAlreadySet
    /\ \E gk \in kubeKinds : VersionConflict(gk) /\ gk \notin DOMAIN CustomResourceStates
    /\ \E gk \in DOMAIN CustomResourceStates :
          /\ Cardinality(TrackedVersions(gk)) = 1
          /\ CustomResourceStates[gk].GroupVersionKind.Version \in TrackedVersions(gk)

(***************************************************************************)
(* C12.  A package whose type named Kind lacks the tracked-kind marker     *)
(* contributes nothing to the resource: the generators and the Version of  *)
(* a stored resource come from a tracked Kind type, and so do its          *)
(* MetricNamePrefix and every entry of its LabelsFromPath.                 *)
(***************************************************************************)
ResourceMarkersOf(markers) ==
    UNION {{v \in Range(markers[k]) : IsResourceMarker(v)} : k \in DOMAIN markers}

TrackedResourceMarkers(groupKind) ==
    UNION {ResourceMarkersOf(Types[t].Markers) : t \in TrackedTypes(groupKind)}

C12_UntrackedPackageSkipped ==
    \A gk \in DOMAIN CustomResourceStates :
        /\ TrackedTypes(gk) = {} =>
              /\ CustomResourceStates[gk].Metrics = <<>>
              /\ CustomResourceStates[gk].GroupVersionKind.Version = <<>>
        /\ CustomResourceStates[gk].GroupVersionKind.Version
              \in TrackedVersions(gk) \cup {<<>>}
        /\ ~CustomResourceStates[gk].MetricNamePrefix.isNil =>
              \E m \in TrackedResourceMarkers(gk) :
                  /\ m.kind = "NamePrefix"
                  /\ m.v = CustomResourceStates[gk].MetricNamePrefix.v
        /\ ~CustomResourceStates[gk].LabelsFromPath.isNil =>
              \A name \in DOMAIN CustomResourceStates[gk].LabelsFromPath.v :
                  \E m \in TrackedResourceMarkers(gk) :
                      /\ m.kind = "LabelFromPath"
                      /\ m.Name = name
                      /\ Parse(m.JSONPath).err = NoErr
                      /\ Parse(m.JSONPath).val
                            = CustomResourceStates[gk].LabelsFromPath.v[name]

(***************************************************************************)
(* C13.  The path of the generator ToGenerator(basePath) returns.          *)
(* As stated: for an Info and for a StateSet annotation the path is        *)
(* basePath when there is no path expression, and basePath followed by the *)
(* resolved path expression when there is one.                             *)
(* As the code has it: that holds for an Info annotation; the path of a    *)
(* StateSet generator is basePath in both cases, and its resolved path     *)
(* expression is the generator's ValueFrom (empty when there is none).     *)
(***************************************************************************)
\* The path expression of the marker of the last call, resolved.
ResolvedExpression ==
    IF lastGenerator.marker.kind = "StateSet"
      THEN (IF lastGenerator.marker.JSONPath.isNil THEN <<>>
            ELSE Parse(lastGenerator.marker.JSONPath.v).val)
    ELSE Parse(lastGenerator.marker.JSONPath).val

HasExpression ==
    IF lastGenerator.marker.kind = "StateSet"
      THEN ~lastGenerator.marker.JSONPath.isNil
    ELSE lastGenerator.marker.JSONPath # <<>>

Returned(kind) ==
    /\ lastGenerator.marker.kind = kind
    /\ lastGenerator.r.st = "ok"

PathAppendsExpression ==
    lastGenerator.r.gen.Each.Path =
        IF HasExpression THEN lastGenerator.basePath \o ResolvedExpression
        ELSE lastGenerator.basePath

C13_InfoStateSetPathAsStated ==
    (Returned("Info") \/ Returned("StateSet")) => PathAppendsExpression

C13_InfoAppendsStateSetKeepsBase ==
    /\ Returned("Info") => PathAppendsExpression
    /\ Returned("StateSet") =>
          /\ lastGenerator.r.gen.Each.Path = lastGenerator.basePath
          /\ lastGenerator.r.gen.Each.ValueFrom = ResolvedExpression

\* A StateSet marker with a path expression of two fields was turned into a
\* generator under a base path.
C13_Witness ==
    /\ Returned("StateSet")
    /\ HasExpression
    /\ Len(ResolvedExpression) = 2
    /\ Len(lastGenerator.basePath) >= 1

(***************************************************************************)
(* C14.  For a generator annotation of any kind, a LabelsFromPath entry    *)
(* whose expression is exactly "." has the empty path in the generator     *)
(* that ToGenerator returns (the expression is not handed to the parser,   *)
(* which would resolve it to the path of one empty field name).            *)
(***************************************************************************)
C14_DotLabelIsEmptyPath ==
    lastGenerator.r.st = "ok" =>
        \A k \in DOMAIN lastGenerator.marker.LabelsFromPath :
            lastGenerator.marker.LabelsFromPath[k] = <<".">> =>
                lastGenerator.r.gen.Each.LabelsFromPath[k] = <<>>

(***************************************************************************)
(* C15.  generatorsFor returns the empty sequence, without ending the      *)
(* process and without a call of NeedMetricsGeneratorFor, for an array or  *)
(* a map type whatever its elements, for a name the type checker does not  *)
(* resolve, for a name of a basic type, and for a pointer to any of these. *)
(* A call of NeedMetricsGeneratorFor happens only for a name, possibly     *)
(* behind pointers, that resolves to a named type.                         *)
(***************************************************************************)
RECURSIVE YieldsNothing(_)
YieldsNothing(rawType) ==
    CASE rawType.kind \in {"ArrayType", "MapType"} -> TRUE
      [] rawType.kind = "StarExpr" -> YieldsNothing(rawType.X)
      [] rawType.kind = "Ident" ->
            \/ <<lastField.pkg, rawType.Name>> \notin DOMAIN TypesInfo
            \/ TypesInfo[<<lastField.pkg, rawType.Name>>].kind \in {"Invalid", "Basic"}
      [] OTHER -> FALSE

C15_OnlyNamedTypesAreWalked ==
    lastField # NoField =>
        /\ YieldsNothing(lastField.rawType) =>
              /\ lastField.r.st = "ok"
              /\ lastField.r.gens = <<>>
              /\ lastField.r.trace = <<>>
        /\ (lastField.r.st = "ok" /\ lastField.r.trace # <<>>) =>
              NamedTypeOf(lastField.pkg, lastField.rawType) # {}

\* generatorsFor has returned nothing for a pointer to an array whose
\* element type has generator annotations on its fields.
C15_Witness ==
    /\ lastField.rawType = StarExpr(ArrayType(Ident(<<"c">>)))
    /\ GeneratorMarkersOf(Types[TypeIdent("p1", <<"c">>)].Fields[1].Markers) # {}
    /\ lastField.r = OkResult(<<>>, <<>>)

(***************************************************************************)
(* C16.  The resource sort of Generate ends without a runtime fault for    *)
(* every set of built resources, also when some have a MetricNamePrefix    *)
(* and some have none, and its comparator is a strict weak order over the  *)
(* resources it compares: it never faults, no resource is less than        *)
(* itself, no two resources are each less than the other, and it is        *)
(* transitive.                                                             *)
(***************************************************************************)
ComparedResources ==
    {CustomResourceStates[gk] : gk \in {k \in DOMAIN CustomResourceStates :
                                          HasMetrics(CustomResourceStates[k])}}

C16_ResourceSortIsSound ==
    /\ status # "panic"
    /\ \A a, b \in ComparedResources :
          /\ resourcesLess(a, b) # "panic"
          /\ resourcesLess(a, a) # "true"
          /\ ~(resourcesLess(a, b) = "true" /\ resourcesLess(b, a) = "true")
          /\ \A c \in ComparedResources :
                (resourcesLess(a, b) = "true" /\ resourcesLess(b, c) = "true")
                    => resourcesLess(a, c) = "true"

====
